---- MODULE Spec2Model ----
(***************************************************************************)
(* Model of src/app.py: the public registration handler (register), the    *)
(* admin login with its in-memory rate limiter (check_rate_limit,          *)
(* record_failed_login, clear_failed_logins, admin_login), event creation  *)
(* (crea_evento) and deletion of a registration (delete_registrazione),    *)
(* over the SQLite store created by init_db.                               *)
(*                                                                         *)
(* Python strings are sequences of one-character strings, so that strip,   *)
(* split, the digit filter, int() and strptime are computed, not assumed.  *)
(***************************************************************************)
EXTENDS Integers, Sequences, FiniteSets, TLC

\* ------------------------------------------------------------------------
\* Program constants
\* ------------------------------------------------------------------------
MAX_LOGIN_ATTEMPTS == 5
LOGIN_LOCKOUT_TIME == 300
MAX_NOME_LEN == 100
MAX_NOME_EVENTO_LEN == 200
TEL_MIN_LEN == 9
TEL_MAX_LEN == 15

\* ------------------------------------------------------------------------
\* Python string helpers
\* ------------------------------------------------------------------------
DecDigits == {"0", "1", "2", "3", "4", "5", "6", "7", "8", "9"}

DigitVal(c) ==
  CASE c = "0" -> 0 [] c = "1" -> 1 [] c = "2" -> 2 [] c = "3" -> 3
    [] c = "4" -> 4 [] c = "5" -> 5 [] c = "6" -> 6 [] c = "7" -> 7
    [] c = "8" -> 8 [] c = "9" -> 9

\* str.isdigit: true of the decimal digits and of the other Unicode digit
\* characters (category No with a digit value), of which the superscript
\* two stands in the alphabet of the model.
str_isdigit(c) == c \in DecDigits \cup {"^2"}

\* str.strip(): leading and trailing whitespace removed.
RECURSIVE LStrip(_)
LStrip(s) == IF s # <<>> /\ Head(s) = " " THEN LStrip(Tail(s)) ELSE s

RECURSIVE RStrip(_)
RStrip(s) ==
  IF s # <<>> /\ s[Len(s)] = " " THEN RStrip(SubSeq(s, 1, Len(s) - 1)) ELSE s

strip(s) == RStrip(LStrip(s))

\* ''.join(filter(pred, s)) for pred = str.isdigit
RECURSIVE filter_isdigit(_)
filter_isdigit(s) ==
  IF s = <<>> THEN <<>>
  ELSE IF str_isdigit(Head(s)) THEN <<Head(s)>> \o filter_isdigit(Tail(s))
       ELSE filter_isdigit(Tail(s))

\* s.split(sep) for a one-character separator: always at least one part.
RECURSIVE split(_, _)
split(s, sep) ==
  IF s = <<>> THEN << <<>> >>
  ELSE IF Head(s) = sep THEN << <<>> >> \o split(Tail(s), sep)
       ELSE LET rest == split(Tail(s), sep)
            IN  << <<Head(s)>> \o Head(rest) >> \o Tail(rest)

AllDecDigits(s) == \A i \in 1..Len(s) : s[i] \in DecDigits

RECURSIVE DigitsValue(_)
DigitsValue(s) ==
  IF s = <<>> THEN 0
  ELSE 10 * DigitsValue(SubSeq(s, 1, Len(s) - 1)) + DigitVal(s[Len(s)])

\* int(s): surrounding whitespace and one leading sign are accepted, then at
\* least one decimal digit and nothing else; any other text raises ValueError.
IntBody(s) ==
  LET t == strip(s)
  IN  IF t # <<>> /\ Head(t) \in {"+", "-"} THEN Tail(t) ELSE t

int_ok(s) == IntBody(s) # <<>> /\ AllDecDigits(IntBody(s))

int_val(s) ==
  LET t == strip(s)
      v == DigitsValue(IntBody(s))
  IN  IF t # <<>> /\ Head(t) = "-" THEN 0 - v ELSE v


\* ------------------------------------------------------------------------
\* register: field validation (src/app.py 239-290)
\* ------------------------------------------------------------------------
FASCE_ETA == {<<">", "1", "8">>, <<"1", "8", "-", "2", "1">>, <<"2", "1", "-", "2", "5">>, <<"2", "5", "-", "3", "0">>, <<"3", "0", "+">>}

\* request.form.get(name, ""): a field that was not sent reads as "".
\* privacy_consent is read without a default: absent reads as None.
truthy(opt) == opt.present /\ opt.val # <<>>

\* lines 279-290: HH:MM, hour 0..23, minute 0..59
orario_valido(orario_arrivo) ==
  LET parts == split(orario_arrivo, ":")
  IN  /\ Len(parts) = 2
      /\ int_ok(parts[1])
      /\ int_ok(parts[2])
      /\ int_val(parts[1]) >= 0 /\ int_val(parts[1]) <= 23
      /\ int_val(parts[2]) >= 0 /\ int_val(parts[2]) <= 59

\* A variant of register_validate that checks the arrival time's format right
\* after its presence (before the consent and the phone format).
register_validate_orario_prima(form, evento_attivo) ==
  LET nome == strip(form.nome)
      cognome == strip(form.cognome)
      telefono == strip(form.telefono)
      eta_fascia == strip(form.eta_fascia)
      orario_arrivo == strip(form.orario_arrivo)
      telefono_pulito == filter_isdigit(telefono)
  IN  IF evento_attivo = 0 THEN "nessun_evento"
      ELSE IF nome = <<>> \/ Len(nome) > MAX_NOME_LEN THEN "nome"
      ELSE IF cognome = <<>> \/ Len(cognome) > MAX_NOME_LEN THEN "cognome"
      ELSE IF telefono = <<>> THEN "telefono_obbligatorio"
      ELSE IF eta_fascia = <<>> \/ eta_fascia \notin FASCE_ETA THEN "eta_fascia"
      ELSE IF orario_arrivo = <<>> THEN "orario_obbligatorio"
      ELSE IF ~orario_valido(orario_arrivo) THEN "orario_formato"
      ELSE IF ~truthy(form.privacy_consent) THEN "privacy"
      ELSE IF telefono_pulito = <<>> \/ Head(telefono_pulito) # "3"
           THEN "telefono_inizio_3"
      ELSE IF Len(telefono_pulito) < TEL_MIN_LEN \/ Len(telefono_pulito) > TEL_MAX_LEN
           THEN "telefono_lunghezza"
      ELSE "ok"

\* The checks of register in the order of the code, each returning the
\* error it renders; "ok" when the request goes on to the store.
\* evento_attivo is the id of the row loaded at lines 233-234, 0 for None.
register_validate(form, evento_attivo) ==
  LET nome == strip(form.nome)
      cognome == strip(form.cognome)
      telefono == strip(form.telefono)
      eta_fascia == strip(form.eta_fascia)
      orario_arrivo == strip(form.orario_arrivo)
      telefono_pulito == filter_isdigit(telefono)
  IN  IF evento_attivo = 0 THEN "nessun_evento"
      ELSE IF nome = <<>> \/ Len(nome) > MAX_NOME_LEN THEN "nome"
      ELSE IF cognome = <<>> \/ Len(cognome) > MAX_NOME_LEN THEN "cognome"
      ELSE IF telefono = <<>> THEN "telefono_obbligatorio"
      ELSE IF eta_fascia = <<>> \/ eta_fascia \notin FASCE_ETA THEN "eta_fascia"
      ELSE IF orario_arrivo = <<>> THEN "orario_obbligatorio"
      ELSE IF ~truthy(form.privacy_consent) THEN "privacy"
      ELSE IF telefono_pulito = <<>> \/ Head(telefono_pulito) # "3"
           THEN "telefono_inizio_3"
      ELSE IF Len(telefono_pulito) < TEL_MIN_LEN \/ Len(telefono_pulito) > TEL_MAX_LEN
           THEN "telefono_lunghezza"
      ELSE IF ~orario_valido(orario_arrivo) THEN "orario_formato"
      ELSE "ok"

\* The phone as it is stored (line 276 and the INSERT of line 321).
telefono_normalizzato(form) == filter_isdigit(strip(form.telefono))

\* ------------------------------------------------------------------------
\* Inputs of the validation
\* ------------------------------------------------------------------------
Rep(n, c) == [i \in 1..n |-> c]

Nomi ==
  { <<>>, <<" ">>, <<"M", "a", "r", "i", "o">>, Rep(MAX_NOME_LEN, "x"), Rep(MAX_NOME_LEN + 1, "x") }

Cognomi == { <<>>, <<"R", "o", "s", "s", "i">>, Rep(MAX_NOME_LEN + 1, "x") }

TelA == <<"3", "3", "3", " ", "1", "2", "3", "4", "5", "6", "7">>
TelA2 == <<"3", "3", "3", "-", "1", "2", "3", "4", "5", "6", "7">>
TelInizio2 == <<"2", "9", "9", "1", "2", "3", "4", "5", "6", "7">>

Telefoni ==
  { <<>>, TelA, TelInizio2, <<"a", "b", "c">>,
    <<"3">> \o Rep(TEL_MIN_LEN - 2, "1"),
    <<"3">> \o Rep(TEL_MIN_LEN - 1, "1"),
    <<"3">> \o Rep(TEL_MAX_LEN - 1, "1"),
    <<"3">> \o Rep(TEL_MAX_LEN, "1") }

Fasce == { <<>>, <<"1", "8", "-", "2", "1">>, <<">", "1", "8">>, <<"4", "0", "+">> }

Orari ==
  { <<>>, <<"2", "0", ":", "3", "0">>, <<"2", "3", ":", "5", "9">>, <<"2", "4", ":", "0", "0">>, <<"2", "0", ":", "6", "0">>, <<"2", "0", "3", "0">>, <<"a", "b", ":", "3", "0">>, <<"1", ":", "2", ":", "3">>, <<"-", "1", ":", "3", "0">> }

Consensi ==
  { [present |-> FALSE, val |-> <<>>],
    [present |-> TRUE, val |-> <<>>],
    [present |-> TRUE, val |-> <<"o", "n">>] }

Form(n, c, t, e, o, p) ==
  [nome |-> n, cognome |-> c, telefono |-> t, eta_fascia |-> e,
   orario_arrivo |-> o, privacy_consent |-> p]

AllForms ==
  { Form(n, c, t, e, o, p) :
      n \in Nomi, c \in Cognomi, t \in Telefoni, e \in Fasce, o \in Orari,
      p \in Consensi }

FormValido(t) ==
  Form(<<"M", "a", "r", "i", "o">>, <<"R", "o", "s", "s", "i">>, t, <<"1", "8", "-", "2", "1">>, <<"2", "0", ":", "3", "0">>, [present |-> TRUE, val |-> <<"o", "n">>])

\* The submissions of the concurrent runs: the same person twice (the phone
\* written in two ways) and a phone that is refused.
StoreForms == { FormValido(TelA), FormValido(TelA2), FormValido(TelInizio2) }

\* ------------------------------------------------------------------------
\* Bounds of the model
\* ------------------------------------------------------------------------
\* rows ever inserted into registrazioni, events ever created
MaxRegistrazioni == 2
MaxEventi == 2

\* characters of a phone that is normalized
MaxLenTelefono == 3

\* The characters of the phones: decimal digits, separators, a letter and
\* the superscript two.
CaratteriTelefono == {"3", "1", " ", "-", "a", "^2"}

Stringhe(n) == UNION { [1..k -> CaratteriTelefono] : k \in 0..n }

RegProcs == {"r1", "r2"}
AdminProcs == {"a1", "a2"}

\* ------------------------------------------------------------------------
\* State
\* ------------------------------------------------------------------------
VARIABLES
  db,        \* the committed store: eventi, registrazioni, AUTOINCREMENT of registrazioni
  tx,        \* the store as the connection holding the write transaction sees it
  writer,    \* the request whose connection holds SQLite's write lock, or "none"
  rpc, rform, revento, rresult,      \* register requests: position, form, loaded event, response
  rverificato, rcount,               \* register: the second look-up passed; the local `count`
  apc, ainput, aresult, session,     \* admin requests: position, input, response, session cookie
  adisattivato,                      \* crea_evento: the request has run its UPDATE of line 699
  failed_login_attempts, now,        \* the rate limiter's map and the clock (in ticks)
  vin, vout,                         \* a submission and what the validation answers
  tel_in, tel_out                    \* a raw phone; its normalizations, one after the other

vars ==
  <<db, tx, writer, rpc, rform, revento, rresult, rverificato, rcount, apc, ainput, aresult, session,
    adisattivato,
    failed_login_attempts, now, vin, vout, tel_in, tel_out>>

storeVars == <<db, tx, writer>>
regVars == <<rpc, rform, revento, rresult, rverificato, rcount>>
adminVars == <<apc, ainput, aresult>>
loginVars == <<failed_login_attempts, now>>
valVars == <<vin, vout, tel_in, tel_out>>

\* ------------------------------------------------------------------------
\* The store (init_db, lines 102-199)
\* ------------------------------------------------------------------------
\* eventi[i] is the attivo column of the event with id i (ids are given in
\* order by AUTOINCREMENT and no event is ever deleted); a registration is a
\* row [id, evento_id, telefono].
EmptyDb == [eventi |-> <<>>, registrazioni |-> {}, reg_seq |-> 0]

\* What the INSERT of a registration is checked against: the FOREIGN KEY on
\* evento_id and the CHECK on eta_fascia. The table declares no UNIQUE
\* constraint; idx_telefono_evento is a plain index.
insert_integrity_error(t, evento_id, form) ==
  \/ evento_id \notin 1..Len(t.eventi)
  \/ strip(form.eta_fascia) \notin FASCE_ETA

\* SELECT id ... FROM eventi WHERE attivo = 1 ORDER BY data_creazione DESC
\* LIMIT 1 (line 233): the id of the latest active event, 0 when there is none.
select_evento_attivo(t) ==
  LET attivi == {i \in 1..Len(t.eventi) : t.eventi[i] = 1}
  IN  IF attivi = {} THEN 0 ELSE CHOOSE i \in attivi : \A j \in attivi : j <= i

\* REPLACE(REPLACE(REPLACE(REPLACE(REPLACE(telefono, ' ', ''), '-', ''), '.',
\* ''), '(', ''), ')', '')  (line 308)
RECURSIVE sql_replace_punteggiatura(_)
sql_replace_punteggiatura(s) ==
  IF s = <<>> THEN <<>>
  ELSE IF Head(s) \in {" ", "-", ".", "(", ")"}
       THEN sql_replace_punteggiatura(Tail(s))
       ELSE <<Head(s)>> \o sql_replace_punteggiatura(Tail(s))

\* SELECT COUNT(*) FROM registrazioni WHERE <stripped telefono> = ? AND
\* evento_id = ?  (lines 306-311)
count_duplicati(t, telefono_pulito, evento_id) ==
  Cardinality({r \in t.registrazioni :
                 /\ sql_replace_punteggiatura(r.telefono) = telefono_pulito
                 /\ r.evento_id = evento_id})

\* A pre-check that lets a second row through.
gia_registrato_oltre_uno(count) == count > 1

\* count > 0  (line 312)
gia_registrato(count) == count > 0

\* SELECT id FROM eventi WHERE id = ? AND attivo = 1 finds a row (lines 298-299)
select_evento_per_id(t, evento_id) ==
  evento_id \in 1..Len(t.eventi) /\ t.eventi[evento_id] = 1

\* UPDATE eventi SET attivo = 0 WHERE attivo = 1  (line 699)
update_disattiva_tutti(ev) == [i \in 1..Len(ev) |-> 0]

\* A close that commits what the connection had written.
RollbackCommette(q) ==
  /\ db' = IF writer = q THEN tx ELSE db
  /\ tx' = IF writer = q THEN tx ELSE tx
  /\ writer' = IF writer = q THEN "none" ELSE writer

\* conn.close() in the finally blocks (lines 334-336, 714-716, 760-762): a
\* transaction that was not committed is rolled back.
Rollback(q) ==
  /\ db' = db
  /\ tx' = IF writer = q THEN db ELSE tx
  /\ writer' = IF writer = q THEN "none" ELSE writer

\* ------------------------------------------------------------------------
\* register, POST (lines 228-338)
\* ------------------------------------------------------------------------
NoForm == FormValido(<<>>)

RegInStore == {p \in RegProcs : rpc[p] \in {"verify", "dupcheck", "insert", "commit"}}

RegFinish(p, esito) ==
  /\ rpc' = [rpc EXCEPT ![p] = "done"]
  /\ rresult' = [rresult EXCEPT ![p] = esito]

\* lines 231-290: load the active event, read and validate the form.
RegStart(p, f) ==
  /\ rpc[p] = "idle"
  /\ LET ev == select_evento_attivo(db)
         esito == register_validate(f, ev)
     IN  /\ rform' = [rform EXCEPT ![p] = f]
         /\ revento' = [revento EXCEPT ![p] = ev]
         /\ IF esito = "ok"
            THEN /\ db.reg_seq + Cardinality(RegInStore) < MaxRegistrazioni
                 /\ rpc' = [rpc EXCEPT ![p] = "verify"]
                 /\ rresult' = [rresult EXCEPT ![p] = "in_corso"]
            ELSE RegFinish(p, esito)
  /\ UNCHANGED <<rverificato, rcount, storeVars, adminVars, session, loginVars, valVars, adisattivato>>

\* lines 231-235 are outside every try: a failure of the connection or of
\* the SELECT leaves the handler as an exception, before the form is read.
RegLoadError(p) ==
  /\ rpc[p] = "idle"
  /\ RegFinish(p, "eccezione")
  /\ UNCHANGED <<rform, revento, rverificato, rcount, storeVars, adminVars, session, loginVars, valVars, adisattivato>>

\* lines 294-301: the event is looked up again.
RegVerify(p) ==
  /\ rpc[p] = "verify"
  /\ IF select_evento_per_id(db, revento[p])
     THEN /\ rpc' = [rpc EXCEPT ![p] = "dupcheck"]
          /\ rverificato' = [rverificato EXCEPT ![p] = TRUE]
          /\ UNCHANGED rresult
     ELSE /\ RegFinish(p, "evento_non_valido")
          /\ UNCHANGED rverificato
  /\ UNCHANGED <<rform, revento, rcount, storeVars, adminVars, session, loginVars, valVars, adisattivato>>

\* lines 306-314: the duplicate pre-check.
RegDupCheck(p) ==
  /\ rpc[p] = "dupcheck"
  /\ LET count == count_duplicati(db, telefono_normalizzato(rform[p]), revento[p])
     IN  /\ rcount' = [rcount EXCEPT ![p] = count]
         /\ IF gia_registrato(count)
            THEN RegFinish(p, "gia_registrato")
            ELSE /\ rpc' = [rpc EXCEPT ![p] = "insert"]
                 /\ UNCHANGED rresult
  /\ UNCHANGED <<rform, revento, rverificato, storeVars, adminVars, session, loginVars, valVars, adisattivato>>

\* lines 317-321 and 326-329: the INSERT opens the write transaction; an
\* IntegrityError is answered as "already registered".
RegInsert(p) ==
  /\ rpc[p] = "insert"
  /\ writer = "none"
  /\ IF insert_integrity_error(db, revento[p], rform[p])
     THEN /\ RegFinish(p, "gia_registrato")
          /\ UNCHANGED <<tx, writer>>
     ELSE /\ tx' = [db EXCEPT
                      !.reg_seq = @ + 1,
                      !.registrazioni = @ \cup
                         {[id |-> db.reg_seq + 1, evento_id |-> revento[p],
                           telefono |-> telefono_normalizzato(rform[p])]}]
          /\ writer' = p
          /\ rpc' = [rpc EXCEPT ![p] = "commit"]
          /\ UNCHANGED rresult
  /\ UNCHANGED <<db, rform, revento, rverificato, rcount, adminVars, session, loginVars, valVars, adisattivato>>

\* lines 322-325
RegCommit(p) ==
  /\ rpc[p] = "commit"
  /\ writer = p
  /\ db' = tx
  /\ writer' = "none"
  /\ RegFinish(p, "success")
  /\ UNCHANGED <<tx, rform, revento, rverificato, rcount, adminVars, session, loginVars, valVars, adisattivato>>

\* lines 330-336: any other exception of the try block (the connection, a
\* query, a lock that timed out, the commit); closing the connection rolls
\* back what was not committed.
RegStorageError(p) ==
  /\ rpc[p] \in {"verify", "dupcheck", "insert", "commit"}
  /\ Rollback(p)
  /\ RegFinish(p, "errore")
  /\ UNCHANGED <<rform, revento, rverificato, rcount, adminVars, session, loginVars, valVars, adisattivato>>

\* The response has been sent; the client may submit again.
RegReturn(p) ==
  /\ rpc[p] = "done"
  /\ rpc' = [rpc EXCEPT ![p] = "idle"]
  /\ rresult' = [rresult EXCEPT ![p] = "none"]
  /\ rform' = [rform EXCEPT ![p] = NoForm]
  /\ revento' = [revento EXCEPT ![p] = 0]
  /\ rverificato' = [rverificato EXCEPT ![p] = FALSE]
  /\ rcount' = [rcount EXCEPT ![p] = -1]
  /\ UNCHANGED <<storeVars, adminVars, session, loginVars, valVars, adisattivato>>

\* ------------------------------------------------------------------------
\* Admin requests: session and inputs
\* ------------------------------------------------------------------------
\* The session cookie of a browser: empty, or as admin_login fills it
\* (lines 370-374; USERS holds the one role "admin").
SessioneVuota == [user_logged_in |-> FALSE, user_role |-> "None"]
SessioneAdmin == [user_logged_in |-> TRUE, user_role |-> "admin"]

\* A JSON value of the body of /admin/delete
JsonNull == [tipo |-> "null", n |-> 0, s |-> <<>>]
JsonInt(k) == [tipo |-> "int", n |-> k, s |-> <<>>]
JsonStr(t) == [tipo |-> "str", n |-> 0, s |-> t]

NoInput ==
  [op |-> "none", nome |-> <<>>, data_evento |-> <<>>, persona_id |-> JsonNull,
   ip |-> "", username |-> <<>>, password |-> <<>>]

Risposta(esito, wait) == [esito |-> esito, wait_time |-> wait]

AFinish(a, esito) ==
  /\ apc' = [apc EXCEPT ![a] = "done"]
  /\ aresult' = [aresult EXCEPT ![a] = Risposta(esito, 0)]

\* The response has been sent; the browser may send another request.
AdminReturn(a) ==
  /\ apc[a] = "done"
  /\ apc' = [apc EXCEPT ![a] = "idle"]
  /\ aresult' = [aresult EXCEPT ![a] = Risposta("none", 0)]
  /\ ainput' = [ainput EXCEPT ![a] = NoInput]
  /\ adisattivato' = [adisattivato EXCEPT ![a] = FALSE]
  /\ UNCHANGED <<storeVars, regVars, session, loginVars, valVars>>

\* admin_logout (lines 385-391)
AdminLogout(a) ==
  /\ apc[a] = "idle"
  /\ session[a] # SessioneVuota
  /\ session' = [session EXCEPT ![a] = SessioneVuota]
  /\ UNCHANGED <<storeVars, regVars, adminVars, loginVars, valVars, adisattivato>>

\* ------------------------------------------------------------------------
\* crea_evento, POST (lines 655-718)
\* ------------------------------------------------------------------------
IsLeap(y) == y % 4 = 0 /\ (y % 100 # 0 \/ y % 400 = 0)

DaysInMonth(y, m) ==
  IF m = 2 THEN (IF IsLeap(y) THEN 29 ELSE 28)
  ELSE IF m \in {4, 6, 9, 11} THEN 30 ELSE 31

\* datetime.strptime(s, "%Y-%m-%d") does not raise: four digits of year,
\* one or two of month and of day, and a date of the calendar.
strptime_ok(s) ==
  LET parts == split(s, "-")
  IN  /\ Len(parts) = 3
      /\ Len(parts[1]) = 4 /\ AllDecDigits(parts[1])
      /\ Len(parts[2]) \in {1, 2} /\ AllDecDigits(parts[2])
      /\ Len(parts[3]) \in {1, 2} /\ AllDecDigits(parts[3])
      /\ DigitsValue(parts[1]) >= 1
      /\ DigitsValue(parts[2]) \in 1..12
      /\ DigitsValue(parts[3]) \in 1..DaysInMonth(DigitsValue(parts[1]), DigitsValue(parts[2]))

NomiEvento == { <<>>, <<"F", "e", "s", "t", "a">>, Rep(MAX_NOME_EVENTO_LEN + 1, "x") }
DateEvento == { <<>>, <<"2", "0", "2", "6", "-", "0", "1", "-", "3", "1">>, <<"2", "0", "2", "6", "-", "0", "2", "-", "3", "0">>, <<"3", "1", "/", "0", "1", "/", "2", "0", "2", "6">> }

CreaInput(n, d) == [NoInput EXCEPT !.op = "crea", !.nome = n, !.data_evento = d]
CreaInputs ==
  { CreaInput(n, <<"2", "0", "2", "6", "-", "0", "1", "-", "3", "1">>) : n \in NomiEvento }
  \cup { CreaInput(<<"F", "e", "s", "t", "a">>, d) : d \in DateEvento }

CreaInStore == {a \in AdminProcs : apc[a] \in {"crea_connect", "crea_update", "crea_insert", "crea_commit"}}

\* A crea_evento whose session checks were left out.
crea_autorizzato_sempre(sess) == TRUE

\* lines 657-662: both checks redirect to the login page.
crea_autorizzato(sess) == sess.user_logged_in /\ sess.user_role = "admin"

\* lines 657-671: the session checks and the check of the name.
CreaStart(a, in) ==
  /\ apc[a] = "idle"
  /\ ainput' = [ainput EXCEPT ![a] = in]
  /\ IF ~crea_autorizzato(session[a]) THEN AFinish(a, "redirect_login")
     ELSE IF strip(in.nome) = <<>> \/ Len(strip(in.nome)) > MAX_NOME_EVENTO_LEN
          THEN AFinish(a, "errore_nome")
     ELSE /\ Len(db.eventi) + Cardinality(CreaInStore) < MaxEventi
          /\ apc' = [apc EXCEPT ![a] = "crea_connect"]
          /\ aresult' = [aresult EXCEPT ![a] = Risposta("in_corso", 0)]
  /\ UNCHANGED <<storeVars, regVars, session, loginVars, valVars, adisattivato>>

\* lines 682-696: the connection is opened, then the date is checked.
CreaConnect(a) ==
  /\ apc[a] = "crea_connect"
  /\ LET data_evento == strip(ainput[a].data_evento)
     IN  IF data_evento = <<>> THEN AFinish(a, "errore_data_obbligatoria")
         ELSE IF ~strptime_ok(data_evento) THEN AFinish(a, "errore_data_non_valida")
         ELSE /\ apc' = [apc EXCEPT ![a] = "crea_update"]
              /\ UNCHANGED aresult
  /\ UNCHANGED <<storeVars, regVars, ainput, session, loginVars, valVars, adisattivato>>

\* A crea_evento that commits right after the UPDATE: the deactivation is
\* visible before the new event is inserted.
crea_update_commit_subito(a) ==
  /\ db' = [db EXCEPT !.eventi = update_disattiva_tutti(db.eventi)]
  /\ tx' = db'
  /\ writer' = writer

\* line 699: the UPDATE opens the write transaction.
crea_update(a) ==
  /\ tx' = [db EXCEPT !.eventi = update_disattiva_tutti(db.eventi)]
  /\ writer' = a
  /\ db' = db

CreaUpdate(a) ==
  /\ apc[a] = "crea_update"
  /\ writer = "none"
  /\ crea_update(a)
  /\ apc' = [apc EXCEPT ![a] = "crea_insert"]
  /\ adisattivato' = [adisattivato EXCEPT ![a] = TRUE]
  /\ UNCHANGED <<regVars, ainput, aresult, session, loginVars, valVars>>

\* lines 702-706: the new event is inserted as active, in the same transaction.
CreaInsert(a) ==
  /\ apc[a] = "crea_insert"
  /\ writer \in {a, "none"}
  /\ tx' = [tx EXCEPT !.eventi = Append(@, 1)]
  /\ writer' = a
  /\ apc' = [apc EXCEPT ![a] = "crea_commit"]
  /\ UNCHANGED <<db, regVars, ainput, aresult, session, loginVars, valVars, adisattivato>>

\* lines 707-709
CreaCommit(a) ==
  /\ apc[a] = "crea_commit"
  /\ writer = a
  /\ db' = tx
  /\ writer' = "none"
  /\ AFinish(a, "redirect_dashboard")
  /\ UNCHANGED <<tx, regVars, ainput, session, loginVars, valVars, adisattivato>>

\* A crea_evento whose error path commits what the request had written.
CreaStorageErrorCommette(a) ==
  /\ apc[a] \in {"crea_connect", "crea_update", "crea_insert", "crea_commit"}
  /\ RollbackCommette(a)
  /\ AFinish(a, "errore_creazione")
  /\ UNCHANGED <<regVars, ainput, session, loginVars, valVars, adisattivato>>

\* lines 710-716: any exception of the try block; closing the connection
\* rolls back what was not committed.
CreaStorageError(a) ==
  /\ apc[a] \in {"crea_connect", "crea_update", "crea_insert", "crea_commit"}
  /\ Rollback(a)
  /\ AFinish(a, "errore_creazione")
  /\ UNCHANGED <<regVars, ainput, session, loginVars, valVars, adisattivato>>

\* ------------------------------------------------------------------------
\* delete_registrazione (lines 723-762)
\* ------------------------------------------------------------------------
DeleteInput(j) == [NoInput EXCEPT !.op = "delete", !.persona_id = j]

DeleteInputs ==
  { DeleteInput(j) :
      j \in {JsonNull, JsonStr(<<"1">>), JsonStr(<<"a">>)}
            \cup {JsonInt(k) : k \in 1..MaxRegistrazioni} }

\* `not persona_id` (line 735): None, 0 and "" are falsy.
persona_id_mancante(j) ==
  \/ j.tipo = "null"
  \/ j.tipo = "int" /\ j.n = 0
  \/ j.tipo = "str" /\ j.s = <<>>

\* int(persona_id) (lines 738-741)
persona_id_valido(j) == j.tipo = "int" \/ (j.tipo = "str" /\ int_ok(j.s))
persona_id_int(j) == IF j.tipo = "int" THEN j.n ELSE int_val(j.s)

\* lines 725-730
delete_esito_sessione(sess) ==
  IF ~sess.user_logged_in THEN "401"
  ELSE IF sess.user_role # "admin" THEN "403"
  ELSE "ok"

\* lines 725-741: the session checks and the reading of persona_id.
DeleteStart(a, in) ==
  /\ apc[a] = "idle"
  /\ ainput' = [ainput EXCEPT ![a] = in]
  /\ IF delete_esito_sessione(session[a]) # "ok"
        THEN AFinish(a, delete_esito_sessione(session[a]))
     ELSE IF persona_id_mancante(in.persona_id) THEN AFinish(a, "400_mancante")
     ELSE IF ~persona_id_valido(in.persona_id) THEN AFinish(a, "400_non_valido")
     ELSE /\ apc' = [apc EXCEPT ![a] = "del_select"]
          /\ aresult' = [aresult EXCEPT ![a] = Risposta("in_corso", 0)]
  /\ UNCHANGED <<storeVars, regVars, session, loginVars, valVars, adisattivato>>

\* lines 745-751
DeleteSelect(a) ==
  /\ apc[a] = "del_select"
  /\ IF \E r \in db.registrazioni : r.id = persona_id_int(ainput[a].persona_id)
     THEN /\ apc' = [apc EXCEPT ![a] = "del_delete"]
          /\ UNCHANGED aresult
     ELSE AFinish(a, "404")
  /\ UNCHANGED <<storeVars, regVars, ainput, session, loginVars, valVars, adisattivato>>

\* A DELETE that takes the row with the given id and every older row.
sql_delete_fino_a(regs, pid) == {r \in regs : r.id > pid}

\* DELETE FROM registrazioni WHERE id = ?  (line 753)
sql_delete(regs, pid) == {r \in regs : r.id # pid}

DeleteExec(a) ==
  /\ apc[a] = "del_delete"
  /\ writer = "none"
  /\ tx' = [db EXCEPT !.registrazioni =
                sql_delete(@, persona_id_int(ainput[a].persona_id))]
  /\ writer' = a
  /\ apc' = [apc EXCEPT ![a] = "del_commit"]
  /\ UNCHANGED <<db, regVars, ainput, aresult, session, loginVars, valVars, adisattivato>>

\* lines 754-756
DeleteCommit(a) ==
  /\ apc[a] = "del_commit"
  /\ writer = a
  /\ db' = tx
  /\ writer' = "none"
  /\ AFinish(a, "200")
  /\ UNCHANGED <<tx, regVars, ainput, session, loginVars, valVars, adisattivato>>

\* lines 757-762
DeleteStorageError(a) ==
  /\ apc[a] \in {"del_select", "del_delete", "del_commit"}
  /\ Rollback(a)
  /\ AFinish(a, "500")
  /\ UNCHANGED <<regVars, ainput, session, loginVars, valVars, adisattivato>>

\* ------------------------------------------------------------------------
\* The login rate limiter (lines 50-76) and admin_login (lines 343-380)
\* ------------------------------------------------------------------------
\* The clock counts ticks; a second has TicksPerSecond of them, so that
\* timestamps have a fractional part. It takes the values of Istanti up to
\* MaxSecondi: just before, at and just after each multiple of the window.
TicksPerSecond == 2
MaxSecondi == 300
\* failures recorded or about to be, over all addresses
MaxFallimenti == 5

Finestra == LOGIN_LOCKOUT_TIME * TicksPerSecond

Istanti ==
  {t \in 0..(MaxSecondi * TicksPerSecond) :
     t % Finestra \in {0, 1, Finestra - 1}}

Addrs == {"ip1", "ip2"}

\* failed_login_attempts[ip] of the defaultdict: the list stored under the
\* key, [] when the key is absent.
attempts_get(fla, ip) == IF ip \in DOMAIN fla THEN fla[ip] ELSE <<>>

attempts_set(fla, ip, lista) ==
  [k \in DOMAIN fla \cup {ip} |-> IF k = ip THEN lista ELSE fla[k]]

\* [ts for ts in lista if now - ts <= LOGIN_LOCKOUT_TIME]
RECURSIVE prune_incluso(_, _)
prune_incluso(lista, t) ==
  IF lista = <<>> THEN <<>>
  ELSE IF t - Head(lista) <= Finestra THEN <<Head(lista)>> \o prune_incluso(Tail(lista), t)
       ELSE prune_incluso(Tail(lista), t)

\* [ts for ts in lista if now - ts < LOGIN_LOCKOUT_TIME]  (lines 59-62)
RECURSIVE prune(_, _)
prune(lista, t) ==
  IF lista = <<>> THEN <<>>
  ELSE IF t - Head(lista) < Finestra THEN <<Head(lista)>> \o prune(Tail(lista), t)
       ELSE prune(Tail(lista), t)

\* int(x) of a non-negative number of seconds given in ticks
int_secondi(ticks) == ticks \div TicksPerSecond

\* A wait time computed from the newest retained failure.
wait_time_dal_piu_recente(lista, t) ==
  LOGIN_LOCKOUT_TIME - int_secondi(t - lista[Len(lista)])

\* LOGIN_LOCKOUT_TIME - int(now - failed_login_attempts[ip][0])  (line 64)
wait_time_of(lista, t) == LOGIN_LOCKOUT_TIME - int_secondi(t - lista[1])

\* len(failed_login_attempts[ip]) >= MAX_LOGIN_ATTEMPTS  (line 63)
limite_raggiunto(lista) == Len(lista) >= MAX_LOGIN_ATTEMPTS

\* check_rate_limit(ip) at time t: the pair (allowed, wait_time) it returns;
\* the map it leaves is check_rate_limit_map.
check_rate_limit(fla, ip, t) ==
  LET lista == prune(attempts_get(fla, ip), t)
  IN  IF limite_raggiunto(lista)
      THEN [allowed |-> FALSE, wait_time |-> wait_time_of(lista, t)]
      ELSE [allowed |-> TRUE, wait_time |-> 0]

\* A gate that counts the denied request itself as one more failure.
check_rate_limit_map_registra(fla, ip, t) ==
  LET lista == prune(attempts_get(fla, ip), t)
  IN  attempts_set(fla, ip, IF limite_raggiunto(lista) THEN Append(lista, t) ELSE lista)

check_rate_limit_map(fla, ip, t) == attempts_set(fla, ip, prune(attempts_get(fla, ip), t))

\* record_failed_login (lines 67-70)
record_failed_login(fla, ip, t) == attempts_set(fla, ip, Append(attempts_get(fla, ip), t))

\* A clear_failed_logins that empties nothing.
clear_failed_logins_noop(fla, ip) == fla

\* clear_failed_logins (lines 72-76)
clear_failed_logins(fla, ip) == [k \in DOMAIN fla \ {ip} |-> fla[k]]

\* USERS (lines 86-95), with the default ADMIN_USERNAME and ADMIN_PASSWORD
ADMIN_USERNAME == <<"a", "d", "m", "i", "n">>
ADMIN_PASSWORD == <<"a", "d", "m", "i", "n", "1", "2", "3">>

lower_char(c) ==
  CASE c = "A" -> "a" [] c = "D" -> "d" [] c = "M" -> "m" [] c = "I" -> "i"
    [] c = "N" -> "n" [] c = "B" -> "b" [] c = "O" -> "o" [] OTHER -> c

lower(s) == [i \in 1..Len(s) |-> lower_char(s[i])]

\* lines 362-368
credenziali_valide(username, password) ==
  lower(ADMIN_USERNAME) = lower(username) /\ ADMIN_PASSWORD = password

LoginInput(ip, u, pw) == [NoInput EXCEPT !.op = "login", !.ip = ip, !.username = u, !.password = pw]

Credenziali ==
  { << <<"A", "d", "m", "i", "n">>, <<"a", "d", "m", "i", "n", "1", "2", "3", " ">> >>,
    << <<"a", "d", "m", "i", "n">>, <<"s", "b", "a", "g", "l", "i", "a", "t", "a">> >>,
    << <<>>, <<>> >> }

\* The first browser sits at ip1; the second one comes from either address.
AddrsOf(a) == IF a = "a1" THEN {"ip1"} ELSE Addrs

LoginInputs(a) == { LoginInput(ip, c[1], c[2]) : ip \in AddrsOf(a), c \in Credenziali }

TotaleFallimenti(fla) ==
  LET RECURSIVE somma(_)
      somma(S) == IF S = {} THEN 0
                  ELSE LET k == CHOOSE k \in S : TRUE
                       IN  Len(fla[k]) + somma(S \ {k})
  IN  somma(DOMAIN fla)

LoginInCorso == {a \in AdminProcs : apc[a] = "login_cred"}

\* lines 346-353: the gate of the rate limiter. A request goes on to the
\* credentials while the failures recorded and those that may still be
\* recorded stay below `cap`.
LoginCheckFino(a, in, cap) ==
  /\ apc[a] = "idle"
  /\ ainput' = [ainput EXCEPT ![a] = in]
  /\ LET r == check_rate_limit(failed_login_attempts, in.ip, now)
     IN  /\ failed_login_attempts' = check_rate_limit_map(failed_login_attempts, in.ip, now)
         /\ IF ~r.allowed
            THEN /\ apc' = [apc EXCEPT ![a] = "done"]
                 /\ aresult' = [aresult EXCEPT ![a] = Risposta("rate_limited", r.wait_time)]
            ELSE /\ TotaleFallimenti(failed_login_attempts') + Cardinality(LoginInCorso) < cap
                 /\ apc' = [apc EXCEPT ![a] = "login_cred"]
                 /\ aresult' = [aresult EXCEPT ![a] = Risposta("in_corso", 0)]
  /\ UNCHANGED <<storeVars, regVars, session, now, valVars, adisattivato>>

LoginCheck(a, in) == LoginCheckFino(a, in, MaxFallimenti)

\* lines 355-378: the credentials are checked; a failure is recorded, a
\* success clears the address and fills the session.
LoginCredentials(a) ==
  /\ apc[a] = "login_cred"
  /\ LET username == strip(ainput[a].username)
         password == strip(ainput[a].password)
         ip == ainput[a].ip
     IN  IF username = <<>> \/ password = <<>>
         THEN /\ failed_login_attempts' = record_failed_login(failed_login_attempts, ip, now)
              /\ AFinish(a, "obbligatori")
              /\ UNCHANGED session
         ELSE IF credenziali_valide(username, password)
         THEN /\ failed_login_attempts' = clear_failed_logins(failed_login_attempts, ip)
              /\ session' = [session EXCEPT ![a] = SessioneAdmin]
              /\ AFinish(a, "redirect_dashboard")
         ELSE /\ failed_login_attempts' = record_failed_login(failed_login_attempts, ip, now)
              /\ AFinish(a, "errati")
              /\ UNCHANGED session
  /\ UNCHANGED <<storeVars, regVars, ainput, now, valVars, adisattivato>>

\* Time passes.
Tick(t) ==
  /\ t \in Istanti
  /\ t > now
  /\ now' = t
  /\ UNCHANGED <<storeVars, regVars, adminVars, session, failed_login_attempts, valVars, adisattivato>>

\* ------------------------------------------------------------------------
\* The validation alone, over every submission of AllForms
\* ------------------------------------------------------------------------
Valida ==
  /\ vout = "none"
  /\ vout' = register_validate(vin.form, vin.evento_attivo)
  /\ UNCHANGED <<vin, tel_in, tel_out, storeVars, regVars, adminVars, session, loginVars, adisattivato>>

\* ------------------------------------------------------------------------
\* The phone normalization alone: at registration (line 269), then again
\* over the stored value when init_db runs at the next start (lines 177-189)
\* ------------------------------------------------------------------------
\* lines 181-187: the value the row holds after the migration loop
migra_telefono(telefono) ==
  IF telefono # <<>> /\ filter_isdigit(telefono) # telefono
  THEN filter_isdigit(telefono)
  ELSE telefono

\* line 269: telefono_pulito of the submitted phone
NormalizzaRegister ==
  /\ tel_out = <<>>
  /\ tel_out' = <<filter_isdigit(strip(tel_in))>>
  /\ UNCHANGED <<tel_in, vin, vout, storeVars, regVars, adminVars, session, loginVars, adisattivato>>

\* lines 177-189: the stored phone is normalized again at start-up
NormalizzaMigrazione ==
  /\ Len(tel_out) = 1
  /\ tel_out' = Append(tel_out, migra_telefono(tel_out[1]))
  /\ UNCHANGED <<tel_in, vin, vout, storeVars, regVars, adminVars, session, loginVars, adisattivato>>

\* ------------------------------------------------------------------------
\* Specifications
\* ------------------------------------------------------------------------
InitCommon ==
  /\ db = EmptyDb
  /\ tx = EmptyDb
  /\ writer = "none"
  /\ rpc = [p \in RegProcs |-> "idle"]
  /\ rform = [p \in RegProcs |-> NoForm]
  /\ revento = [p \in RegProcs |-> 0]
  /\ rresult = [p \in RegProcs |-> "none"]
  /\ rverificato = [p \in RegProcs |-> FALSE]
  /\ rcount = [p \in RegProcs |-> -1]
  /\ apc = [a \in AdminProcs |-> "idle"]
  /\ ainput = [a \in AdminProcs |-> NoInput]
  /\ aresult = [a \in AdminProcs |-> Risposta("none", 0)]
  /\ adisattivato = [a \in AdminProcs |-> FALSE]
  /\ failed_login_attempts = << >>
  /\ now = 0
  /\ tel_out = <<>>

\* The store and its handlers. A browser starts with or without the session
\* of an earlier login.
InitStore(AP) ==
  /\ InitCommon
  /\ session \in [AdminProcs -> {SessioneVuota, SessioneAdmin}]
  /\ \A a \in AdminProcs \ AP : session[a] = SessioneVuota
  /\ vin = [form |-> NoForm, evento_attivo |-> 0]
  /\ vout = "none"
  /\ tel_in = <<>>

Init == InitStore({"a1"})

RegNext(RP, Forms) ==
  \/ \E p \in RP, f \in Forms : RegStart(p, f)
  \/ \E p \in RP : RegLoadError(p)
  \/ \E p \in RP : RegVerify(p)
  \/ \E p \in RP : RegDupCheck(p)
  \/ \E p \in RP : RegInsert(p)
  \/ \E p \in RP : RegCommit(p)
  \/ \E p \in RP : RegStorageError(p)
  \/ \E p \in RP : RegReturn(p)

CreaNext(AP) ==
  \/ \E a \in AP, in \in CreaInputs : CreaStart(a, in)
  \/ \E a \in AP : CreaConnect(a)
  \/ \E a \in AP : CreaUpdate(a)
  \/ \E a \in AP : CreaInsert(a)
  \/ \E a \in AP : CreaCommit(a)
  \/ \E a \in AP : CreaStorageError(a)
  \/ \E a \in AP : AdminLogout(a)
  \/ \E a \in AP : AdminReturn(a)

DeleteNext(AP) ==
  \/ \E a \in AP, in \in DeleteInputs : DeleteStart(a, in)
  \/ \E a \in AP : DeleteSelect(a)
  \/ \E a \in AP : DeleteExec(a)
  \/ \E a \in AP : DeleteCommit(a)
  \/ \E a \in AP : DeleteStorageError(a)

\* Two concurrent submissions, and one admin browser that creates events.
Next == RegNext(RegProcs, StoreForms) \/ CreaNext({"a1"})

Spec == Init /\ [][Next]_vars

\* Two admin browsers, creating events and deleting registrations, and one
\* submission at a time.
NextAdmin ==
  RegNext({"r1"}, {FormValido(TelA)}) \/ CreaNext(AdminProcs) \/ DeleteNext(AdminProcs)

InitAdmin == InitStore(AdminProcs)

SpecAdmin == InitAdmin /\ [][NextAdmin]_vars

\* The login and its rate limiter, with the clock.
InitLogin ==
  /\ InitCommon
  /\ session = [a \in AdminProcs |-> SessioneVuota]
  /\ vin = [form |-> NoForm, evento_attivo |-> 0]
  /\ vout = "none"
  /\ tel_in = <<>>

NextLogin ==
  \/ \E a \in AdminProcs : \E in \in LoginInputs(a) : LoginCheck(a, in)
  \/ \E a \in AdminProcs : LoginCredentials(a)
  \/ \E a \in AdminProcs : AdminReturn(a)
  \/ \E t \in Istanti : Tick(t)

SpecLogin == InitLogin /\ [][NextLogin]_vars

\* Two browsers behind one address, with room for one failure more than
\* the limiter allows.
NextLoginGara ==
  \/ \E a \in AdminProcs : \E in \in LoginInputs("a1") : LoginCheckFino(a, in, MaxFallimenti + 1)
  \/ \E a \in AdminProcs : LoginCredentials(a)
  \/ \E a \in AdminProcs : AdminReturn(a)
  \/ \E t \in Istanti : Tick(t)

SpecLoginGara == InitLogin /\ [][NextLoginGara]_vars

\* The validation of register over all the submissions.
InitValida ==
  /\ InitCommon
  /\ session = [a \in AdminProcs |-> SessioneVuota]
  /\ vin \in [form : AllForms, evento_attivo : {0, 1}]
  /\ vout = "none"
  /\ tel_in = <<>>

NextValida == Valida

SpecValida == InitValida /\ [][NextValida]_vars

\* The normalization over every phone of up to MaxLenTelefono characters.
InitNormalizza ==
  /\ InitCommon
  /\ session = [a \in AdminProcs |-> SessioneVuota]
  /\ vin = [form |-> NoForm, evento_attivo |-> 0]
  /\ vout = "none"
  /\ tel_in \in Stringhe(MaxLenTelefono)

NextNormalizza == NormalizzaRegister \/ NormalizzaMigrazione

SpecNormalizza == InitNormalizza /\ [][NextNormalizza]_vars

\* ------------------------------------------------------------------------
\* Properties
\* ------------------------------------------------------------------------
Attivi(t) == {i \in 1..Len(t.eventi) : t.eventi[i] = 1}

StessaCoppia(x, y) == x.telefono = y.telefono /\ x.evento_id = y.evento_id

\* The rules of the validation, each stated on its own.
Viola(regola, f, evento_attivo) ==
  LET tel == filter_isdigit(strip(f.telefono))
  IN  CASE regola = "nessun_evento" -> evento_attivo = 0
        [] regola = "nome" -> strip(f.nome) = <<>> \/ Len(strip(f.nome)) > MAX_NOME_LEN
        [] regola = "cognome" -> strip(f.cognome) = <<>> \/ Len(strip(f.cognome)) > MAX_NOME_LEN
        [] regola = "eta_fascia" -> strip(f.eta_fascia) \notin FASCE_ETA
        [] regola = "orario_obbligatorio" -> strip(f.orario_arrivo) = <<>>
        [] regola = "orario_formato" -> ~orario_valido(strip(f.orario_arrivo))
        [] regola = "privacy" -> ~truthy(f.privacy_consent)
        [] regola = "telefono_obbligatorio" -> strip(f.telefono) = <<>>
        [] regola = "telefono_inizio_3" -> tel = <<>> \/ Head(tel) # "3"
        [] regola = "telefono_lunghezza" -> Len(tel) < TEL_MIN_LEN \/ Len(tel) > TEL_MAX_LEN

RegoleCampi ==
  {"nome", "cognome", "eta_fascia", "orario_obbligatorio", "orario_formato", "privacy",
   "telefono_obbligatorio", "telefono_inizio_3", "telefono_lunghezza"}

CampiValidi(f) == \A regola \in RegoleCampi : ~Viola(regola, f, 1)

\* The first rule of `ordine` that the submission violates, "ok" when none.
RECURSIVE PrimaViolata(_, _, _)
PrimaViolata(ordine, f, evento_attivo) ==
  IF ordine = <<>> THEN "ok"
  ELSE IF Viola(Head(ordine), f, evento_attivo) THEN Head(ordine)
       ELSE PrimaViolata(Tail(ordine), f, evento_attivo)

OrdineDichiarato ==
  <<"nessun_evento", "nome", "cognome", "eta_fascia", "orario_obbligatorio",
    "orario_formato", "privacy", "telefono_obbligatorio", "telefono_inizio_3",
    "telefono_lunghezza">>

OrdineDelCodice ==
  <<"nessun_evento", "nome", "cognome", "telefono_obbligatorio", "eta_fascia",
    "orario_obbligatorio", "privacy", "telefono_inizio_3", "telefono_lunghezza",
    "orario_formato">>

\* C1: the stored registrations never hold two rows with the same
\* (normalized phone, event id) pair, whatever the interleaving of the
\* submissions.
C1_CoppiaUnica ==
  \A x, y \in db.registrazioni : StessaCoppia(x, y) => x = y

C7_EffettoRegister ==
  [][ \A p \in RegProcs :
        rpc[p] # rpc'[p] =>
          IF rpc'[p] = "done" /\ rresult'[p] = "success"
          THEN /\ db'.eventi = db.eventi
               /\ \E r \in db'.registrazioni :
                    /\ r \notin db.registrazioni
                    /\ db'.registrazioni = db.registrazioni \cup {r}
          ELSE db' = db ]_vars

C7_Witness ==
  \E p, q \in RegProcs :
    /\ rpc[p] = "done" /\ rresult[p] = "success"
    /\ rpc[q] = "done" /\ rresult[q] = "errore" /\ rcount[q] = 0
    /\ Cardinality(db.registrazioni) = 1

\* C8 (as amended): the validation answers the first violated rule in the
\* order event, first name, last name, phone present, age bracket, arrival
\* time present, consent, phone starts with 3, phone length, arrival time
\* format.
C8_OrdineDelCodice ==
  vout # "none" => vout = PrimaViolata(OrdineDelCodice, vin.form, vin.evento_attivo)

C8_Witness ==
  /\ vout = "telefono_inizio_3"
  /\ Viola("orario_formato", vin.form, vin.evento_attivo)

\* C8 (as stated): the validation answers the first violated rule in the
\* order event, first name, last name, age bracket, arrival time (present,
\* then format), consent, and the phone rules last.
C8_OrdineDichiarato ==
  vout # "none" => vout = PrimaViolata(OrdineDichiarato, vin.form, vin.evento_attivo)

\* C5: at most one event is active in every committed state, and the commit
\* of a create leaves exactly one active event, the one it has just added.
C5_UnSoloAttivo ==
  /\ [](Cardinality(Attivi(db)) <= 1)
  /\ [][ \A a \in AdminProcs :
           (apc[a] = "crea_commit" /\ apc'[a] = "done"
              /\ aresult'[a].esito = "redirect_dashboard") =>
             /\ Len(db'.eventi) = Len(db.eventi) + 1
             /\ Attivi(db') = {Len(db'.eventi)} ]_vars

C5_Witness ==
  \E a \in AdminProcs :
    /\ apc[a] = "done" /\ aresult[a].esito = "redirect_dashboard"
    /\ Len(db.eventi) >= 2
    /\ Attivi(db) = {Len(db.eventi)}

\* C6: a delete that answers 200 has removed the row with the given id and
\* nothing else; every other step of the handler leaves the store unchanged;
\* it goes on to the DELETE only when the look-up found the row and answers
\* 404 only when the look-up found none.
C6_EffettoDelete ==
  [][ \A a \in AdminProcs :
        (apc[a] # apc'[a] /\ ainput'[a].op = "delete") =>
          IF apc'[a] = "done" /\ aresult'[a].esito = "200"
          THEN LET pid == persona_id_int(ainput'[a].persona_id)
               IN  /\ db'.registrazioni = {r \in db.registrazioni : r.id # pid}
                   /\ Cardinality(db.registrazioni \ db'.registrazioni) <= 1
                   /\ db'.eventi = db.eventi
          ELSE /\ db' = db
               /\ apc'[a] = "del_delete" =>
                    \E r \in db.registrazioni :
                      r.id = persona_id_int(ainput'[a].persona_id)
               /\ (apc'[a] = "done" /\ aresult'[a].esito = "404") =>
                    ~\E r \in db.registrazioni :
                       r.id = persona_id_int(ainput'[a].persona_id) ]_vars

C6_Witness ==
  \E a \in AdminProcs :
    /\ apc[a] = "done" /\ aresult[a].esito = "200"
    /\ \E r \in db.registrazioni : r.id # persona_id_int(ainput[a].persona_id)
    /\ \A r \in db.registrazioni : r.id # persona_id_int(ainput[a].persona_id)

\* C9: a request to crea_evento or to delete_registrazione that comes
\* without the session of a logged-in admin is answered at once (redirect to
\* the login page; 401 or 403) and changes nothing in the store, and no
\* request is at work on the store without such a session.
SessioneDiAdmin(a) == session[a].user_logged_in /\ session[a].user_role = "admin"

C9_SenzaSessione ==
  /\ [](\A a \in AdminProcs : apc[a] \notin {"idle", "done", "login_cred"} => SessioneDiAdmin(a))
  /\ [][ \A a \in AdminProcs :
           (apc[a] = "idle" /\ apc'[a] # "idle" /\ ~SessioneDiAdmin(a)
              /\ ainput'[a].op \in {"crea", "delete"}) =>
             /\ db' = db /\ tx' = tx /\ writer' = writer
             /\ apc'[a] = "done"
             /\ ainput'[a].op = "crea" => aresult'[a].esito = "redirect_login"
             /\ ainput'[a].op = "delete" =>
                  aresult'[a].esito = IF ~session[a].user_logged_in THEN "401" ELSE "403" ]_vars

C9_Witness ==
  \E a \in AdminProcs :
    /\ apc[a] = "done" /\ aresult[a].esito = "401"
    /\ ainput[a].persona_id.tipo = "int"
    /\ \E r \in db.registrazioni : r.id = ainput[a].persona_id.n

\* The step of admin_login that runs check_rate_limit
LoginCheckStep(a) == apc[a] = "idle" /\ apc'[a] # "idle" /\ ainput'[a].op = "login"

InFinestra(lista, t) == {i \in 1..Len(lista) : t - lista[i] < Finestra}

\* C3: with five failures of the address inside the window the check denies;
\* with five failures recorded and the window elapsed since the oldest of
\* them, the check allows.
C3_LimiteEFinestra ==
  [][ \A a \in AdminProcs :
        LoginCheckStep(a) =>
          LET lista == attempts_get(failed_login_attempts, ainput'[a].ip)
          IN  /\ Cardinality(InFinestra(lista, now)) >= MAX_LOGIN_ATTEMPTS =>
                   aresult'[a].esito = "rate_limited"
              /\ (Len(lista) = MAX_LOGIN_ATTEMPTS /\ now - lista[1] >= Finestra) =>
                   aresult'[a].esito # "rate_limited" ]_vars

C3_Witness ==
  \E a, b \in AdminProcs :
    /\ apc[b] = "done" /\ aresult[b].esito = "rate_limited" /\ ainput[b].ip = "ip1"
    /\ apc[a] = "login_cred" /\ ainput[a].ip = "ip1"
    /\ now = Finestra
    /\ "ip1" \in DOMAIN failed_login_attempts
    /\ Len(failed_login_attempts["ip1"]) = MAX_LOGIN_ATTEMPTS - 1
    /\ failed_login_attempts["ip1"][1] = 1

\* C4: the step of a login that succeeds deletes the entry of its address
\* from the failure map, so that a check of that address then finds no
\* failure and allows.
C4_SuccessoAzzera ==
  [][ \A a \in AdminProcs :
        (apc[a] = "login_cred" /\ apc'[a] = "done"
           /\ aresult'[a].esito = "redirect_dashboard") =>
          /\ ainput[a].ip \notin DOMAIN failed_login_attempts'
          /\ attempts_get(failed_login_attempts', ainput[a].ip) = <<>>
          /\ check_rate_limit(failed_login_attempts', ainput[a].ip, now').allowed ]_vars

C4_Witness ==
  \E a, b \in AdminProcs :
    /\ apc[a] = "done" /\ aresult[a].esito = "redirect_dashboard" /\ ainput[a].ip = "ip1"
    /\ apc[b] = "done" /\ aresult[b].esito = "errati" /\ ainput[b].ip = "ip1"
    /\ "ip1" \notin DOMAIN failed_login_attempts

\* C10: a denial carries as wait time 300 minus the whole seconds elapsed
\* since the oldest failure still inside the window, a value from 1 to 300.
C10_WaitTime ==
  [][ \A a \in AdminProcs :
        (LoginCheckStep(a) /\ aresult'[a].esito = "rate_limited") =>
          LET lista == attempts_get(failed_login_attempts, ainput'[a].ip)
              rimasti == {lista[i] : i \in InFinestra(lista, now)}
              piu_vecchio == CHOOSE t \in rimasti : \A u \in rimasti : t <= u
          IN  /\ aresult'[a].wait_time =
                   LOGIN_LOCKOUT_TIME - ((now - piu_vecchio) \div TicksPerSecond)
              /\ aresult'[a].wait_time >= 1
              /\ aresult'[a].wait_time <= LOGIN_LOCKOUT_TIME ]_vars

C10_Witness ==
  \E a \in AdminProcs :
    /\ apc[a] = "done" /\ aresult[a].esito = "rate_limited"
    /\ aresult[a].wait_time = 1
    /\ now % TicksPerSecond # 0

\* C11: no storage failure leaves a handler as an exception: every request
\* that has been answered carries a response of its handler.
C11_NessunaEccezione ==
  /\ \A p \in RegProcs : rresult[p] # "eccezione"
  /\ \A a \in AdminProcs : aresult[a].esito # "eccezione"

\* The decimal digits of a string, in their order.
RECURSIVE SoloDecimali(_)
SoloDecimali(s) ==
  IF s = <<>> THEN <<>>
  ELSE IF Head(s) \in DecDigits THEN <<Head(s)>> \o SoloDecimali(Tail(s))
       ELSE SoloDecimali(Tail(s))

\* C12: the normalized phone is made of exactly the decimal digits of the
\* submitted phone, in their order (the empty phone gives the empty phone),
\* and normalizing it again returns it unchanged.
C12_SoloCifreIdempotente ==
  /\ Len(tel_out) >= 1 =>
       /\ tel_out[1] = SoloDecimali(tel_in)
       /\ tel_in = <<>> => tel_out[1] = <<>>
  /\ Len(tel_out) = 2 => tel_out[2] = tel_out[1]

\* The part of C12 that the code does keep: the characters kept are those
\* str.isdigit accepts, in their order, and a second pass changes nothing.
C12_Idempotente ==
  /\ Len(tel_out) >= 1 =>
       /\ tel_out[1] = SelectSeq(tel_in, str_isdigit)
       /\ tel_in = <<>> => tel_out[1] = <<>>
  /\ Len(tel_out) = 2 => tel_out[2] = tel_out[1]

\* C13: whatever the interleaving of register with crea_evento, the INSERT
\* of a registration finds its event active, and so does the commit of the
\* row.
C13_EventoAttivoAllInsert ==
  [][ \A p \in RegProcs :
        /\ (rpc[p] = "insert" /\ rpc'[p] = "commit") =>
              select_evento_per_id(db, revento[p])
        /\ (rpc[p] = "commit" /\ rpc'[p] = "done" /\ rresult'[p] = "success") =>
              \E r \in db'.registrazioni \ db.registrazioni :
                select_evento_per_id(db', r.evento_id) ]_vars

\* C14: the gate comes before the credentials. The step of a login that
\* check_rate_limit denies ends the request, leaves every session as it
\* was and leaves in the list of the address the failures that are still
\* inside the window, no more and no fewer (none recorded, the list not
\* cleared); once answered so, the request does nothing else.
C14_GatePrimaDelleCredenziali ==
  [][ \A a \in AdminProcs :
        /\ (LoginCheckStep(a) /\ aresult'[a].esito = "rate_limited") =>
             LET ip == ainput'[a].ip
             IN  /\ apc'[a] = "done"
                 /\ session' = session
                 /\ ip \in DOMAIN failed_login_attempts'
                 /\ failed_login_attempts'[ip] =
                      SelectSeq(attempts_get(failed_login_attempts, ip),
                                LAMBDA ts : now - ts < Finestra)
                 /\ Len(failed_login_attempts'[ip]) >= MAX_LOGIN_ATTEMPTS
                 /\ \A k \in DOMAIN failed_login_attempts \ {ip} :
                      failed_login_attempts'[k] = failed_login_attempts[k]
        /\ (apc[a] = "done" /\ aresult[a].esito = "rate_limited" /\ apc'[a] # apc[a]) =>
             /\ apc'[a] = "idle"
             /\ session' = session
             /\ failed_login_attempts' = failed_login_attempts ]_vars

C14_Witness ==
  \E a \in AdminProcs :
    /\ apc[a] = "done" /\ aresult[a].esito = "rate_limited"
    /\ credenziali_valide(strip(ainput[a].username), strip(ainput[a].password))
    /\ session[a] = SessioneVuota
    /\ Len(failed_login_attempts[ainput[a].ip]) = MAX_LOGIN_ATTEMPTS

\* C15: whatever the interleaving of the logins of one address, its list of
\* failures never holds more than five timestamps that lie within one
\* window of 300 seconds.
NellaStessaFinestra(lista, i) ==
  {j \in 1..Len(lista) : lista[j] >= lista[i] /\ lista[j] - lista[i] < Finestra}

C15_AlPiuCinqueNellaFinestra ==
  \A ip \in DOMAIN failed_login_attempts :
    \A i \in 1..Len(failed_login_attempts[ip]) :
      Cardinality(NellaStessaFinestra(failed_login_attempts[ip], i)) <= MAX_LOGIN_ATTEMPTS

\* C16: a step of crea_evento that does not end in the redirect to the
\* dashboard leaves the committed store as it was, and a request that has
\* failed holds no pending change; the commit of a successful one shows the
\* deactivation and the new event together. So once an event exists, some
\* event is active in every committed state.
C16_CreaTuttoONiente ==
  /\ [](Len(db.eventi) >= 1 => Attivi(db) # {})
  /\ [][ \A a \in AdminProcs :
           (apc[a] # apc'[a] /\ ainput'[a].op = "crea") =>
             IF apc'[a] = "done" /\ aresult'[a].esito = "redirect_dashboard"
             THEN /\ Len(db'.eventi) = Len(db.eventi) + 1
                  /\ Attivi(db') = {Len(db'.eventi)}
             ELSE /\ db' = db
                  /\ Attivi(db') = Attivi(db)
                  /\ apc'[a] = "done" => (writer' # a /\ (writer' = "none" => tx' = db')) ]_vars

C16_Witness ==
  \E a \in AdminProcs :
    /\ apc[a] = "done" /\ aresult[a].esito = "errore_creazione"
    /\ adisattivato[a]
    /\ db.eventi # <<>>
    /\ Attivi(db) = {Len(db.eventi)}
    /\ writer = "none" /\ tx = db

====
